---- MODULE Spec2Model ----
(***************************************************************************)
(* State-machine model of slimit's syntax tree (src/src/slimit/ast.py):    *)
(* the Node base class, a representative set of node variants, their       *)
(* children() methods and the generic Node.replace_self operation.         *)
(*                                                                         *)
(* A node is an identity in 1..MaxNodes; None is 0.  Python attributes are *)
(* addressed by their source names (strings), so that replace_self's scan  *)
(* over dir(parent) can be modelled attribute by attribute.                *)
(***************************************************************************)
EXTENDS Integers, Sequences, FiniteSets

\* ---------------------------------------------------------------- bounds
MaxNodes == 3
MaxLen == 2

None == 0
Nodes == 1..MaxNodes

\* ------------------------------------------------------------ attributes
\* Attributes that hold a single value which may be a Node.
SingleNames ==
    {"predicate", "consequent", "alternative", "init", "cond", "count",
     "statement", "identifier", "initializer", "node"}

\* Attributes that hold a Python list of Nodes.
ListNames == {"_children_list", "args", "parameters", "elements"}

VARIABLES
    kind,      \* kind[n]: the class of node n, "free" before it is constructed
    fld,       \* fld[n][a]: single-valued attribute a of node n
    lst,       \* lst[n][a]: list-valued attribute a of node n
    parent,    \* parent[n]: the attribute Node.parent
    lineno,    \* lineno[n]: the attribute Node.lineno
    mangle,    \* mangle[n]: the attribute _mangle_candidate is set on n
    call       \* the last replace_self call: made or not, and what it raised

vars == <<kind, fld, lst, parent, lineno, mangle, call>>

\* Classes that inherit Node.__init__ and Node.children unchanged.
BaseKinds == {"Program", "Block", "VarStatement"}

NoFields == [a \in SingleNames |-> None]
NoLists == [a \in ListNames |-> <<>>]

NoCall == [op |-> "none", err |-> "none"]

Init ==
    /\ kind = [n \in Nodes |-> "free"]
    /\ fld = [n \in Nodes |-> NoFields]
    /\ lst = [n \in Nodes |-> NoLists]
    /\ parent = [n \in Nodes |-> None]
    /\ lineno = [n \in Nodes |-> -1]
    /\ mangle = [n \in Nodes |-> FALSE]
    /\ call = NoCall

Built == {n \in Nodes : kind[n] # "free"}

\* The instance attributes each class's __init__ assigns, Node.__init__'s
\* included.
NodeAttrs == {"_children_list", "lineno", "parent"}

InstanceAttrs(k) ==
    NodeAttrs \cup
    CASE k = "Identifier" -> {"value"}
      [] k = "If" -> {"predicate", "consequent", "alternative"}
      [] k = "For" -> {"init", "cond", "count", "statement"}
      [] k = "FunctionCall" -> {"identifier", "args"}
      [] k = "NewExpr" -> {"identifier", "args"}
      [] k = "VarDecl" -> {"identifier", "initializer"}
      [] k = "DotAccessor" -> {"node", "identifier"}
      [] k = "Catch" -> {"identifier", "elements"}
      [] k \in {"FuncDecl", "FuncExpr"} -> {"identifier", "parameters", "elements"}
      [] OTHER -> {}

\* The methods a class has (dir() lists them with the instance attributes).
ClassAttrs(k) ==
    {"__init__", "__iter__", "children", "to_ecma", "replace_self"}
    \cup (IF k = "Identifier" THEN {"childer"} ELSE {})
    \cup (IF k \in {"FuncDecl", "FuncExpr"} THEN {"_init_ids"} ELSE {})

\* dir(p).  dir(None) lists only double-underscore names.
Dir(p) ==
    IF p = None THEN {"__class__", "__doc__"}
    ELSE InstanceAttrs(kind[p]) \cup ClassAttrs(kind[p])
         \cup (IF mangle[p] THEN {"_mangle_candidate"} ELSE {})

\* a[0] == '_'
IsPrivate(a) ==
    a \in {"_children_list", "_mangle_candidate", "_init_ids", "__init__",
           "__iter__", "__class__", "__doc__"}

\* --------------------------------------------------------------- children
\* One entry of the sequence children() returns: a Node, None, or (where the
\* code puts a list attribute itself into the sequence) a nested list.
Entry(v) ==
    [tag |-> IF v = None THEN "none" ELSE "node", node |-> v, items |-> <<>>]

ListEntry(s) == [tag |-> "list", node |-> None, items |-> s]

\* A Python list of Nodes, spliced into the sequence with +.
Entries(s) == [i \in DOMAIN s |-> Entry(s[i])]

IsPresent(v) == v # None

\* Fixed with the absent values left out instead of kept in their position.
FixedSkipAbsent(vs) == Entries(SelectSeq(vs, IsPresent))

\* A list display [self.a, self.b, ...] of single-valued attributes: one
\* entry per attribute, in the order written, None included.
Fixed(vs) == [i \in DOMAIN vs |-> Entry(vs[i])]

\* children(), per class.
children(n) ==
    LET k == kind[n]
        f == fld[n]
        l == lst[n]
    IN  CASE k = "If" ->
               Fixed(<<f["predicate"], f["consequent"], f["alternative"]>>)
          [] k = "For" ->
               Fixed(<<f["init"], f["cond"], f["count"], f["statement"]>>)
          [] k = "FunctionCall" ->
               Fixed(<<f["identifier"]>>) \o Entries(l["args"])
          [] k = "NewExpr" ->
               Fixed(<<f["identifier"]>>) \o <<ListEntry(l["args"])>>
          [] k = "VarDecl" ->
               Fixed(<<f["identifier"], f["initializer"]>>)
          [] k = "DotAccessor" ->
               Fixed(<<f["node"], f["identifier"]>>)
          [] k = "Catch" ->
               Fixed(<<f["identifier"]>>) \o <<ListEntry(l["elements"])>>
          [] k \in {"FuncDecl", "FuncExpr"} ->
               Fixed(<<f["identifier"]>>) \o Entries(l["parameters"])
                   \o Entries(l["elements"])
          [] OTHER -> Entries(l["_children_list"])

IsNotNone(e) == e.tag # "none"

\* Node.__iter__: the children that are not None.
Iter(n) == SelectSeq(children(n), IsNotNone)

Range(s) == {s[i] : i \in DOMAIN s}

\* The Nodes a sequence of entries holds, nested lists included.
NodesOf(es) ==
    {e.node : e \in {x \in Range(es) : x.tag = "node"}}
    \cup UNION {Range(e.items) : e \in {x \in Range(es) : x.tag = "list"}}

\* The Nodes held by the slots of p.
Kids(p) == IF kind[p] = "free" THEN {} ELSE NodesOf(children(p))

\* Built nodes no slot of any node holds: the roots of the forest.
Unheld == {n \in Built : \A p \in Built : n \notin Kids(p)}

\* ------------------------------------------------------------ construction
\* The identity the next constructed object gets.
HasFree == \E n \in Nodes : kind[n] = "free"
NewNode == CHOOSE n \in Nodes : kind[n] = "free" /\ \A m \in 1..(n - 1) : kind[m] # "free"

\* Records the last replace_self call: that it was made and what it raised.
Called(op, e) == call' = [op |-> op, err |-> e]

\* Node.__init__(children, lineno=-1), after the subclass assigned its own
\* attributes f (single values) and l (lists).
NodeInit(n, k, f, l, cs) ==
    /\ kind' = [kind EXCEPT ![n] = k]
    /\ fld' = [fld EXCEPT ![n] = f]
    /\ lst' = [lst EXCEPT ![n] = [l EXCEPT !["_children_list"] = cs]]
    /\ lineno' = [lineno EXCEPT ![n] = -1]
    /\ parent' = [parent EXCEPT ![n] = None]
    /\ UNCHANGED call

\* x._mangle_candidate = True for every x in ids.
Mark(ids) == mangle' = [m \in Nodes |-> mangle[m] \/ m \in ids]

\* ValNode.__init__(value): Identifier and the other literals.
Identifier_init(n) ==
    /\ NodeInit(n, "Identifier", NoFields, NoLists, <<>>)
    /\ Mark({})

\* Node.__init__(children): Program, Block, VarStatement.
Block_init(n, k, cs) ==
    /\ NodeInit(n, k, NoFields, NoLists, cs)
    /\ Mark({})

If_init(n, predicate, consequent, alternative) ==
    /\ NodeInit(n, "If",
                [NoFields EXCEPT !["predicate"] = predicate,
                                 !["consequent"] = consequent,
                                 !["alternative"] = alternative],
                NoLists, <<>>)
    /\ Mark({})

For_init(n, init, cond, count, statement) ==
    /\ NodeInit(n, "For",
                [NoFields EXCEPT !["init"] = init, !["cond"] = cond,
                                 !["count"] = count,
                                 !["statement"] = statement],
                NoLists, <<>>)
    /\ Mark({})

\* FunctionCall.__init__ and NewExpr.__init__ (k names the class).
Call_init(n, k, identifier, args) ==
    /\ NodeInit(n, k, [NoFields EXCEPT !["identifier"] = identifier],
                [NoLists EXCEPT !["args"] = args], <<>>)
    /\ Mark({})

VarDecl_init(n, identifier, initializer) ==
    /\ NodeInit(n, "VarDecl",
                [NoFields EXCEPT !["identifier"] = identifier,
                                 !["initializer"] = initializer],
                NoLists, <<>>)
    /\ Mark({identifier})

DotAccessor_init(n, node, identifier) ==
    /\ NodeInit(n, "DotAccessor",
                [NoFields EXCEPT !["node"] = node,
                                 !["identifier"] = identifier],
                NoLists, <<>>)
    /\ Mark({})

Catch_init(n, identifier, elements) ==
    /\ NodeInit(n, "Catch", [NoFields EXCEPT !["identifier"] = identifier],
                [NoLists EXCEPT !["elements"] = elements], <<>>)
    /\ Mark({identifier})

\* _init_ids marking the function's name only, its parameters forgotten.
InitIdsNameOnly(identifier, parameters) ==
    IF identifier # None THEN {identifier} ELSE {}

\* FuncBase._init_ids: the objects it marks.
InitIds(identifier, parameters) ==
    (IF identifier # None THEN {identifier} ELSE {})
    \cup {parameters[i] : i \in DOMAIN parameters}

\* FuncBase.__init__: FuncDecl and FuncExpr (k names the class).
FuncBase_init(n, k, identifier, parameters, elements) ==
    /\ NodeInit(n, k, [NoFields EXCEPT !["identifier"] = identifier],
                [NoLists EXCEPT !["parameters"] = parameters,
                                !["elements"] = elements], <<>>)
    /\ Mark(InitIds(identifier, parameters))

\* ------------------------------------------------------------ parent links
\* The nodes whose parent link the tree's builder sets when it attaches the
\* children of p: for child in p: child.parent = p.
Children(p) == {e.node : e \in Range(Iter(p))}

SetParents(p) ==
    /\ p \in Built
    /\ \A i \in DOMAIN Iter(p) : Iter(p)[i].tag = "node"
    /\ Children(p) # {}
    /\ parent' = [c \in Nodes |-> IF c \in Children(p) THEN p ELSE parent[c]]
    /\ UNCHANGED call
    /\ UNCHANGED <<kind, fld, lst, lineno, mangle>>

\* ------------------------------------------------------------ replace_self
\* The assertion left out (or stripped): every call goes on to the scan.
AssertParentOff(n) == TRUE

\* assert self.parent is not None
AssertParent(n) == parent[n] # None

\* The attributes of the parent that replace_self scans.
Attribs(p) ==
    {a \in Dir(p) : ~IsPrivate(a) /\ a \notin {"children", "to_ecma"}}

\* setattr given self.parent where the replacement was meant.
ReplaceValueWrongNode(v, self, replacement) ==
    IF v = None THEN v
    ELSE IF v = self THEN parent[self]
    ELSE v

\* A single-valued attribute: skipped when falsy (None), overwritten when it
\* equals self.
ReplaceValue(v, self, replacement) ==
    IF v = None THEN v
    ELSE IF v = self THEN replacement
    ELSE v

\* The list scan stopping at the first member equal to self.
ReplaceListFirst(s, self, replacement) ==
    [i \in DOMAIN s |->
        IF s[i] = self /\ \A j \in 1..(i - 1) : s[j] # self
        THEN replacement
        ELSE s[i]]

\* A list attribute: every member equal to self is overwritten in place.
ReplaceList(s, self, replacement) ==
    [i \in DOMAIN s |-> IF s[i] = self THEN replacement ELSE s[i]]

\* The body of replace_self after its assertion, on parent p.  Attributes
\* that hold a number, a string or a bound method (lineno, value,
\* replace_self, childer) never equal self and are left as they are.
ReplaceIn(p, self, replacement) ==
    LET scanned == Attribs(p)
    IN  /\ fld' = [m \in Nodes |->
                     IF m # p THEN fld[m]
                     ELSE [a \in SingleNames |->
                             IF a \in scanned
                             THEN ReplaceValue(fld[m][a], self, replacement)
                             ELSE fld[m][a]]]
        /\ lst' = [m \in Nodes |->
                     IF m # p THEN lst[m]
                     ELSE [a \in ListNames |->
                             IF a \in scanned
                             THEN ReplaceList(lst[m][a], self, replacement)
                             ELSE lst[m][a]]]
        /\ parent' = [m \in Nodes |->
                        IF m = p /\ "parent" \in scanned
                        THEN ReplaceValue(parent[m], self, replacement)
                        ELSE parent[m]]
        /\ UNCHANGED <<kind, lineno, mangle>>

ReplaceSelf(n, r) ==
    /\ n \in Built
    /\ r \in Built
    /\ IF AssertParent(n)
       THEN /\ ReplaceIn(parent[n], n, r)
            /\ Called("replace_self", "none")
       ELSE /\ Called("replace_self", "AssertionError")
            /\ UNCHANGED <<kind, fld, lst, parent, lineno, mangle>>

\* ----------------------------------------------------------- specifications
\* Python lists of at most MaxLen members drawn from S.
Lists(S) == UNION {[1..k -> S] : k \in 0..MaxLen}

\* The rewriting passes' view: trees of literals, blocks, conditionals and
\* calls are built bottom-up from nodes nothing holds yet (one node may be
\* given to several slots of the parent being built), linked, and rewritten
\* with replace_self.
Build ==
    /\ HasFree
    /\ LET n == NewNode
           U == Unheld
       IN  \/ Identifier_init(n)
           \/ \E cs \in Lists(U) : Block_init(n, "Block", cs)
           \/ \E a, b \in U, c \in U \cup {None} : If_init(n, a, b, c)
           \/ \E a \in U, as \in Lists(U) : Call_init(n, "FunctionCall", a, as)

Link == \E p \in Nodes : SetParents(p)

Replace == \E n, r \in Nodes : ReplaceSelf(n, r)

Next == Build \/ Link \/ Replace

Spec == Init /\ [][Next]_vars

\* The parser's view: every variant is built bottom-up by its constructor
\* from nodes nothing holds yet; names are Identifier nodes.
Construct ==
    /\ HasFree
    /\ LET n == NewNode
           U == Unheld
           Ids == {u \in Unheld : kind[u] = "Identifier"}
       IN  \/ Identifier_init(n)
           \/ \E k \in BaseKinds, cs \in Lists(U) : Block_init(n, k, cs)
           \/ \E a, b \in U, c \in U \cup {None} : If_init(n, a, b, c)
           \/ \E a, b, c \in U \cup {None}, d \in U : For_init(n, a, b, c, d)
           \/ \E k \in {"FunctionCall", "NewExpr"}, a \in U, as \in Lists(U) :
                  Call_init(n, k, a, as)
           \/ \E a \in Ids, b \in U \cup {None} : VarDecl_init(n, a, b)
           \/ \E a \in U, b \in Ids : DotAccessor_init(n, a, b)
           \/ \E a \in Ids, es \in Lists(U) : Catch_init(n, a, es)
           \/ \E k \in {"FuncDecl", "FuncExpr"}, a \in Ids \cup {None},
                 ps \in Lists(Ids), es \in Lists(U) :
                  FuncBase_init(n, k, a, ps, es)

SpecBuild == Init /\ [][Construct]_vars

\* ------------------------------------------------------------- tree shape
\* The slot positions <<p, i>> (entry i of p.children()) that hold node c.
SlotsHolding(c) ==
    UNION {{<<p, i>> : i \in {j \in DOMAIN children(p) :
                                  children(p)[j] = Entry(c)}} : p \in Built}

\* The nodes reachable from the nodes of S in at most k child steps.
RECURSIVE Below(_, _)
Below(S, k) ==
    IF k = 0 THEN {}
    ELSE LET kids == UNION {Kids(p) : p \in S}
         IN  kids \cup Below(kids, k - 1)

Descendants(n) == Below({n}, MaxNodes)

\* Every node is held by at most one slot of at most one parent and no node
\* reaches itself: a depth-first walk from any root visits each node of its
\* tree exactly once.
WellFormed ==
    \A c \in Built :
        /\ Cardinality(SlotsHolding(c)) <= 1
        /\ c \notin Descendants(c)

\* r is a new node for a splice into p: nothing holds it, and p is neither r
\* nor below r.
Fresh(r, p) ==
    /\ r \in Unheld
    /\ p \notin {r} \cup Descendants(r)

\* n.parent points at a node that no longer holds n: what replace_self
\* leaves of the node it replaced.
Orphaned(n) ==
    /\ n \in Built
    /\ parent[n] # None
    /\ n \notin Kids(parent[n])

\* The named child attributes of p's class: those its own __init__ assigns.
NamedSingle(p) == InstanceAttrs(kind[p]) \cap SingleNames
NamedLists(p) == (InstanceAttrs(kind[p]) \cap ListNames) \ {"_children_list"}

\* --------------------------------------------------------------- claims

\* C1: after N.replace_self(R) on a node N whose parent is P, R.parent is P
\* (stated for a new node R spliced into a named slot of P).
C1_ReplacementParentSet ==
    [][\A n, r, p \in Nodes :
          (/\ ReplaceSelf(n, r)
           /\ parent[n] = p
           /\ n \in Kids(p)
           /\ NamedSingle(p) \cup NamedLists(p) # {}
           /\ Fresh(r, p))
          => parent'[r] = p]_vars

\* C2: for a parent P that keeps its children in the base child list
\* (Program, Block, VarStatement) and a child N with N.parent = P, after
\* N.replace_self(R) the sequence P.children() is the old one with R at
\* every position that held N (stated for a new node R).
C2_BaseListReplaced ==
    [][\A n, r, p \in Nodes :
          (/\ ReplaceSelf(n, r)
           /\ parent[n] = p
           /\ kind[p] \in BaseKinds
           /\ Fresh(r, p))
          => children(p)' =
                 [i \in DOMAIN children(p) |->
                     IF children(p)[i] = Entry(n) THEN Entry(r)
                     ELSE children(p)[i]]]_vars

C4_ChildrenParentSet ==
    \A p \in Built : \A c \in Kids(p) : parent[c] = p

\* C5: replace_self on a node whose parent is None fails with the assertion
\* error and modifies no attribute of any node, the replacement included.
C5_NoParentFails ==
    [][\A n, r \in Nodes :
          (ReplaceSelf(n, r) /\ parent[n] = None)
          => /\ call'.err = "AssertionError"
             /\ UNCHANGED <<kind, fld, lst, parent, lineno, mangle>>]_vars

\* The last replace_self call raised the assertion error, on a tree that has
\* a root holding children.
C5_Witness ==
    /\ call = [op |-> "replace_self", err |-> "AssertionError"]
    /\ \E n \in Built : parent[n] = None /\ Kids(n) # {}

\* C6: N.replace_self(R) with N.parent = P, N held by P in a well-formed
\* tree and R a new node, changes only the slots of P that held N: N's own parent link and
\* attributes, the other slots of P and their number, the siblings' parent
\* links, P.parent, and the line numbers and classes stay as they are.
C6_ReplaceFrame ==
    [][\A n, r, p \in Nodes :
          (/\ ReplaceSelf(n, r)
           /\ parent[n] = p
           /\ n \in Kids(p)
           /\ WellFormed
           /\ Fresh(r, p))
          => /\ parent'[n] = parent[n]
             /\ fld'[n] = fld[n]
             /\ lst'[n] = lst[n]
             /\ \A a \in SingleNames :
                    fld[p][a] # n => fld'[p][a] = fld[p][a]
             /\ \A a \in ListNames :
                    /\ DOMAIN lst'[p][a] = DOMAIN lst[p][a]
                    /\ \A i \in DOMAIN lst[p][a] :
                           lst[p][a][i] # n => lst'[p][a][i] = lst[p][a][i]
             /\ \A c \in Kids(p) \ {n} : parent'[c] = parent[c]
             /\ parent'[p] = parent[p]
             /\ lineno' = lineno
             /\ kind' = kind]_vars

\* C7: every entry of the sequence children() returns is a Node or None,
\* never a nested list.
C7_ChildrenFlat ==
    \A n \in Built :
        \A i \in DOMAIN children(n) : children(n)[i].tag \in {"node", "none"}

\* Entry e of a children() sequence is the value v of a slot: v itself, or
\* the absent entry when v is None.
SlotIs(e, v) ==
    IF v = None THEN e.tag = "none" ELSE e.tag = "node" /\ e.node = v

\* C8: For.children() is always the four entries init, cond, count,
\* statement in that order, an absent one kept in its position, and
\* If.children() is predicate, consequent, alternative with the predicate at
\* position 1 whether or not the alternative is present.
C8_FixedPositions ==
    \A n \in Built :
        /\ kind[n] = "For" =>
              /\ Len(children(n)) = 4
              /\ SlotIs(children(n)[1], fld[n]["init"])
              /\ SlotIs(children(n)[2], fld[n]["cond"])
              /\ SlotIs(children(n)[3], fld[n]["count"])
              /\ SlotIs(children(n)[4], fld[n]["statement"])
        /\ kind[n] = "If" =>
              /\ Len(children(n)) = 3
              /\ SlotIs(children(n)[1], fld[n]["predicate"])
              /\ SlotIs(children(n)[2], fld[n]["consequent"])
              /\ SlotIs(children(n)[3], fld[n]["alternative"])

\* A For whose init is absent and whose cond is present, under an If without
\* alternative.
C8_Witness ==
    \E n, m \in Built :
        /\ kind[n] = "For"
        /\ fld[n]["init"] = None
        /\ fld[n]["cond"] # None
        /\ kind[m] = "If"
        /\ fld[m]["predicate"] = n
        /\ fld[m]["alternative"] = None

\* The identifiers node p binds: a function's name and parameters, a
\* variable declaration's target, a catch clause's binding.
BindingIds(p) ==
    CASE kind[p] \in {"FuncDecl", "FuncExpr"} ->
           ({fld[p]["identifier"]} \ {None}) \cup Range(lst[p]["parameters"])
      [] kind[p] \in {"VarDecl", "Catch"} -> {fld[p]["identifier"]}
      [] OTHER -> {}

\* C9: among constructed nodes, the rename-eligible ones are exactly those a
\* FuncDecl or FuncExpr holds as name or parameter, a VarDecl as target or a
\* Catch as binding; an Identifier in any other position (a DotAccessor's
\* property name) is not marked.
C9_RenameFlags ==
    \A m \in Nodes :
        mangle[m] <=> \E p \in Built : m \in BindingIds(p)

\* A function declaration with two distinct parameters, both marked.
C9_Witness ==
    \E f \in Built :
        /\ kind[f] = "FuncDecl"
        /\ Len(lst[f]["parameters"]) = 2
        /\ lst[f]["parameters"][1] # lst[f]["parameters"][2]
        /\ mangle[lst[f]["parameters"][1]]
        /\ mangle[lst[f]["parameters"][2]]

\* C10 as claimed: whatever node R is, replace_self on a well-formed tree
\* leaves a well-formed tree.
C10_TreeKeptAnyReplacement ==
    [][\A n, r \in Nodes :
          (ReplaceSelf(n, r) /\ WellFormed) => WellFormed']_vars

\* C10 amended: replace_self on a well-formed tree with a new node R (held
\* by no slot, N's parent neither R nor below R) leaves a well-formed tree.
C10_TreeKeptNewReplacement ==
    [][\A n, r \in Nodes :
          (ReplaceSelf(n, r) /\ WellFormed /\ Fresh(r, parent[n]))
          => WellFormed']_vars

\* A well-formed tree in which a replace_self call has spliced a node over
\* one that is now orphaned.
C10_Witness ==
    /\ call = [op |-> "replace_self", err |-> "none"]
    /\ WellFormed
    /\ \E n, r \in Built :
          /\ Orphaned(n)
          /\ r # n
          /\ r \in Kids(parent[n])
          /\ parent[r] = None

====
